---- MODULE Spec2Model ----
(***************************************************************************)
(* Model of backend/services/physics_simulation_service.py                 *)
(* (PhysicsSimulationService) of IntegrityInspect.                         *)
(*                                                                         *)
(* Python floats are modelled as exact rationals [n |-> .., d |-> ..] in   *)
(* lowest terms with d > 0; float('inf') is the rational 1/0.  Lengths are *)
(* kept in half metres where the code uses x.5 values, so that every       *)
(* coordinate is an integer.                                               *)
(***************************************************************************)
EXTENDS Integers, Sequences, FiniteSets, TLC

VARIABLES
    pc,                  \* position inside analyze_structural_damage
    building_data,       \* argument building_data (a dict)
    annotations,         \* argument annotations (a list of dicts)
    FENICS_AVAILABLE,    \* module flag set at import time
    PYCHRONO_AVAILABLE,  \* module flag set at import time
    clock_year,          \* what datetime.now().year returns at this moment
    fea_locals,          \* locals of the stress estimator that ran last
    fea_results,         \* local fea_results of analyze_structural_damage
    components,          \* building_components of _run_collapse_simulation
    ann_idx,             \* loop position of _apply_damage_to_structure
    collapse_simulation, \* local collapse_simulation
    risk_metrics,        \* local risk_metrics
    result,              \* the dict analyze_structural_damage returned
    previous,            \* the preceding call of the same client, if any
    clock_ticks,         \* what datetime.now() shows in the route, in ticks
    simulation_ids       \* the simulation_id of each /analyze request so far

vars == <<pc, building_data, annotations, FENICS_AVAILABLE, PYCHRONO_AVAILABLE,
          clock_year, fea_locals, fea_results, components, ann_idx,
          collapse_simulation, risk_metrics, result, previous,
          clock_ticks, simulation_ids>>

\* the state of the /analyze route outside the service call
route_state == <<clock_ticks, simulation_ids>>

None == [none |-> TRUE]

-----------------------------------------------------------------------------
(* Bounds of the model *)

MaxFloors == 3
MaxAnnotations == 2
MaxDamageTypes == 5
MaxLongList == 5
MaxTicks == 1
MaxRequests == 2
MaxClockTicks == 3
NumSamples == 1

-----------------------------------------------------------------------------
(* Exact rational arithmetic standing for Python float arithmetic *)

Abs(i) == IF i < 0 THEN -i ELSE i

RECURSIVE GCD(_, _)
GCD(a, b) == IF b = 0 THEN a ELSE GCD(b, a % b)

R(n, d) ==
    IF d = 0 THEN [n |-> 1, d |-> 0]
    ELSE LET g == GCD(Abs(n), Abs(d))
             s == IF d < 0 THEN -1 ELSE 1
         IN  [n |-> s * (n \div g), d |-> s * (d \div g)]

Whole(i) == [n |-> i, d |-> 1]
Inf == [n |-> 1, d |-> 0]

RAdd(a, b) == R(a.n * b.d + b.n * a.d, a.d * b.d)
RSub(a, b) == R(a.n * b.d - b.n * a.d, a.d * b.d)
RMul(a, b) == R(a.n * b.n, a.d * b.d)
RDiv(a, b) == R(a.n * b.d, a.d * b.n)
RLt(a, b) == a.n * b.d < b.n * a.d
RLe(a, b) == a.n * b.d <= b.n * a.d
RMax(a, b) == IF RLt(a, b) THEN b ELSE a
RMin(a, b) == IF RLt(b, a) THEN b ELSE a

-----------------------------------------------------------------------------
(* Inputs the model draws from *)

BuildingTypes == {"residential", "industrial"}
\* class BuildingType
BuildingTypeEnum == {"residential", "commercial", "industrial", "mixed_use"}
Materials == {"concrete", "steel"}
\* construction years whose ages at StartYear are 200, 70, 50, 30 and 20
YearsBuilt == {1826, 1956, 1976, 1996, 2006}
IssueTypes == {"crack", "tilting", "partial_collapse", "foundation_issues",
               "column_damage", "wall_damage"}
\* annotation positions, as sent by the client and read by position.get("x"/"y")
Positions == {[x |-> 0, y |-> 0], [x |-> 0, y |-> 5], [x |-> 500, y |-> 300]}
\* the year datetime.now() shows when the process starts
StartYear == 2026
\* outcomes of one np.random.uniform(0, high) draw, in tenths of high
RandomTenths == {0, 9}

SeqsUpTo(S, k) == UNION {[1..m -> S] : m \in 0..k}

Annotation(t, p) == [issueType |-> t, position |-> p]

-----------------------------------------------------------------------------
(* _get_material_properties *)

base_properties ==
    [concrete |-> [elastic_modulus |-> Whole(30000),
                   compressive_strength |-> Whole(30),
                   tensile_strength |-> Whole(3),
                   density |-> Whole(2400)],
     steel    |-> [elastic_modulus |-> Whole(200000),
                   yield_strength |-> Whole(250),
                   tensile_strength |-> Whole(400),
                   density |-> Whole(7850)],
     brick    |-> [elastic_modulus |-> Whole(10000),
                   compressive_strength |-> Whole(15),
                   tensile_strength |-> R(3, 2),
                   density |-> Whole(1800)],
     wood     |-> [elastic_modulus |-> Whole(12000),
                   compressive_strength |-> Whole(40),
                   tensile_strength |-> Whole(80),
                   density |-> Whole(500)]]

\* the degradation without its lower limit
AgeFactorNoFloor(age) == RSub(Whole(1), RMul(Whole(age), R(1, 100)))

\* max(0.3, 1.0 - (age * 0.01))
AgeFactor(age) == RMax(R(3, 10), RSub(Whole(1), RMul(Whole(age), R(1, 100))))

AgedKeys == {"elastic_modulus", "compressive_strength", "tensile_strength"}

\* the entry returned as it stands in the table
GetMaterialPropertiesUnaged(material, age) ==
    IF material \in DOMAIN base_properties
    THEN base_properties[material]
    ELSE base_properties["concrete"]

GetMaterialProperties(material, age) ==
    LET props == IF material \in DOMAIN base_properties
                 THEN base_properties[material]
                 ELSE base_properties["concrete"]
        age_factor == AgeFactor(age)
    IN  [key \in DOMAIN props |->
            IF key \in AgedKeys THEN RMul(props[key], age_factor) ELSE props[key]]

\* dict.get(key, default)
Get(dict, key, default) == IF key \in DOMAIN dict THEN dict[key] ELSE default

-----------------------------------------------------------------------------
(* _simplified_fea_analysis *)

\* min(1.0, max(0.0, p))
Clamp01(p) == RMin(Whole(1), RMax(Whole(0), p))

\* the probability left as computed, not clamped
SimplifiedFailureProbabilityUnclamped(stress) ==
    RDiv(RSub(stress, Whole(20)), Whole(10))

SimplifiedFailureProbability(stress) ==
    Clamp01(RDiv(RSub(stress, Whole(20)), Whole(10)))

SimplifiedStress(floors, age, n) ==
    LET base_stress == RMul(Whole(floors), Whole(5))
        age_factor == AgeFactor(age)
        damage_factor == RAdd(Whole(1), RMul(Whole(n), R(1, 5)))
    IN  RDiv(RMul(base_stress, damage_factor), age_factor)

\* 30.0 / stress if stress > 0 else float('inf')
SimplifiedSafetyFactor(stress) ==
    IF RLt(Whole(0), stress) THEN RDiv(Whole(30), stress) ELSE Inf

SimplifiedFeaAnalysis(bd, anns, year) ==
    LET floors == bd.number_of_floors
        age == year - bd.year_built
        stress == SimplifiedStress(floors, age, Len(anns))
    IN  [stress_distribution |-> [i \in 1..10 |-> stress],
         strain_distribution |-> [i \in 1..10 |-> RDiv(stress, Whole(30000))],
         critical_points |-> [i \in 1..Len(anns) |->
                                 [location |-> anns[i].position,
                                  stress_level |-> stress]],
         safety_factor |-> SimplifiedSafetyFactor(stress),
         failure_probability |-> SimplifiedFailureProbability(stress),
         analysis_type |-> "Simplified_FEA"]

SimplifiedFeaLocals(bd, year) ==
    [age |-> year - bd.year_built,
     age_factor |-> AgeFactor(year - bd.year_built),
     material_props |-> None]

-----------------------------------------------------------------------------
(* The FEniCS branch of _perform_fea_analysis *)

RECURSIVE SumSeq(_)
SumSeq(q) == IF q = <<>> THEN Whole(0) ELSE RAdd(q[1], SumSeq(Tail(q)))

RECURSIVE MaxSeq(_)
MaxSeq(q) == IF Len(q) = 1 THEN q[1] ELSE RMax(q[1], MaxSeq(Tail(q)))

\* np.mean
Mean(q) == RDiv(SumSeq(q), Whole(Len(q)))

\* np.random.uniform(0, max_stress, 100): draws[i] tenths of max_stress
CalculateStress(material_props, draws) ==
    LET max_stress == Get(material_props, "compressive_strength", Whole(30))
    IN  [i \in 1..Len(draws) |-> RMul(R(draws[i], 10), max_stress)]

\* np.random.uniform(0, 0.01, 100)
CalculateStrain(draws) ==
    [i \in 1..Len(draws) |-> RMul(R(draws[i], 10), R(1, 100))]

CriticalPoint(annotation, stress_value, strain_value) ==
    [location |-> annotation.position,
     stress_level |-> stress_value,
     strain_level |-> strain_value,
     risk_level |-> IF RLt(RMul(R(9, 10), Whole(30)), stress_value)
                    THEN "high" ELSE "medium",
     issue_type |-> annotation.issueType]

IdentifyCriticalPoints(stress, strain, anns) ==
    LET StressAt(i) == stress[((i - 1) % Len(stress)) + 1]
        StrainAt(i) == strain[((i - 1) % Len(strain)) + 1]
        hot == SelectSeq([i \in 1..Len(anns) |-> i],
                         LAMBDA i : RLt(RMul(R(8, 10), Whole(30)), StressAt(i)))
    IN  [k \in 1..Len(hot) |->
            CriticalPoint(anns[hot[k]], StressAt(hot[k]), StrainAt(hot[k]))]

CalculateSafetyFactor(stress, material_props) ==
    LET max_stress == MaxSeq(stress)
        allowable_stress == Get(material_props, "compressive_strength", Whole(30))
    IN  IF RLt(Whole(0), max_stress)
        THEN RDiv(allowable_stress, max_stress) ELSE Inf

\* x as a whole number of thousandths, rounded down
Milli(x) == (x.n * 1000) \div x.d

\* 1 - exp(-t) for t in thousandths, by the first ExpTerms terms of its power
\* series, in thousandths (the float result agrees to about three decimals
\* for the t < 1500 that arise here)
ExpTerms == 10

RECURSIVE ExpSeries(_, _, _)
ExpSeries(t, k, term) ==
    IF k > ExpTerms THEN 0
    ELSE (IF k % 2 = 1 THEN term ELSE -term)
         + ExpSeries(t, k + 1, (term * t) \div (1000 * (k + 1)))

OneMinusExpNeg(t) == ExpSeries(t, 1, t)

CalculateFailureProbability(stress, strain) ==
    LET stress_ratio == RDiv(Mean(stress), Whole(30))
        strain_ratio == RDiv(Mean(strain), R(1, 100))
        half == Milli(RDiv(RAdd(stress_ratio, strain_ratio), Whole(2)))
        failure_prob == R(OneMinusExpNeg((half * half) \div 1000), 1000)
    IN  Clamp01(failure_prob)

FenicsFeaAnalysis(bd, anns, year, stress_draws, strain_draws) ==
    LET material == Get(bd, "primary_material", "concrete")
        building_age == year - bd.year_built
        material_props == GetMaterialProperties(material, building_age)
        stress == CalculateStress(material_props, stress_draws)
        strain == CalculateStrain(strain_draws)
    IN  [stress_distribution |-> stress,
         strain_distribution |-> strain,
         critical_points |-> IdentifyCriticalPoints(stress, strain, anns),
         safety_factor |-> CalculateSafetyFactor(stress, material_props),
         failure_probability |-> CalculateFailureProbability(stress, strain),
         analysis_type |-> "FEniCS_FEA"]

FenicsFeaLocals(bd, year) ==
    [age |-> year - bd.year_built,
     age_factor |-> AgeFactor(year - bd.year_built),
     material_props |-> GetMaterialProperties(
                            Get(bd, "primary_material", "concrete"),
                            year - bd.year_built)]

-----------------------------------------------------------------------------
(* _calculate_structural_loads *)

LoadIncrement(issue_type) ==
    IF issue_type \in {"crack", "tilting", "partial_collapse"} THEN R(1, 5)
    ELSE IF issue_type \in {"foundation_issues", "column_damage"} THEN R(1, 2)
    ELSE Whole(0)

RECURSIVE DamageMultiplier(_)
DamageMultiplier(anns) ==
    IF anns = <<>> THEN Whole(1)
    ELSE RAdd(DamageMultiplier(SubSeq(anns, 1, Len(anns) - 1)),
              LoadIncrement(anns[Len(anns)].issueType))

CalculateStructuralLoads(anns, floors) ==
    LET base_load == RMul(RMul(Whole(floors), Whole(3)), R(981, 100))
    IN  RMul(base_load, DamageMultiplier(anns))

-----------------------------------------------------------------------------
(* _simplified_collapse_simulation and _run_chrono_simulation *)

SafetyZone(radius, level) ==
    [x |-> 0, y |-> 0, radius |-> radius, safety_level |-> level]

\* max(1.0, 10.0 - damage_count * 2.0)
SimplifiedFailureTime(damage_count) ==
    RMax(Whole(1), RSub(Whole(10), RMul(Whole(damage_count), Whole(2))))

\* the danger and caution radii exchanged
SimplifiedSafetyZonesSwapped(floors) ==
    <<SafetyZone(floors * 10, "safe"),
      SafetyZone(floors * 2, "caution"),
      SafetyZone(floors * 5, "danger")>>

SimplifiedSafetyZones(floors) ==
    <<SafetyZone(floors * 10, "safe"),
      SafetyZone(floors * 5, "caution"),
      SafetyZone(floors * 2, "danger")>>

\* The frame list collapse_sequence is kept as its evenly spaced frame times:
\* np.linspace(start, stop, num), and [step * time_step for step in
\* range(steps)] with start 0 and stop (steps - 1) * time_step.  The positions
\* PyChrono's DoStepDynamics gives the bodies are not part of the records, and
\* the per-step entries of the PyChrono debris_pattern are represented by one
\* entry.
FrameTimes(start, stop, num) == [start |-> start, stop |-> stop, num |-> num]

\* the time of frame i, counted from 0
FrameTime(times, i) ==
    RAdd(times.start,
         RMul(Whole(i), RDiv(RSub(times.stop, times.start),
                             Whole(times.num - 1))))

SimplifiedCollapseSimulation(bd, anns) ==
    LET floors == bd.number_of_floors
        failure_time == SimplifiedFailureTime(Len(anns))
    IN  [collapse_sequence |-> FrameTimes(Whole(0), failure_time, 100),
         failure_time |-> failure_time,
         debris_pattern |-> <<[time |-> failure_time,
                               debris_count |-> floors,
                               impact_zone |-> [x |-> 0, y |-> 0,
                                                radius |-> floors * 5]]>>,
         safety_zones |-> SimplifiedSafetyZones(floors),
         simulation_type |-> "Simplified_Physics"]

ChronoSafetyZones ==
    <<SafetyZone(50, "safe"), SafetyZone(20, "caution"), SafetyZone(10, "danger")>>

ChronoSimulation(comps) ==
    [collapse_sequence |-> FrameTimes(Whole(0), R(999, 100), 1000),
     failure_time |-> Whole(5),
     debris_pattern |-> <<[debris_count |-> Len(comps),
                           impact_zone |-> [x |-> 0, y |-> 0, radius |-> 10]]>>,
     safety_zones |-> ChronoSafetyZones,
     simulation_type |-> "PyChrono_Physics"]

-----------------------------------------------------------------------------
(* _create_building_structure, _create_walls, _create_roof_structure         *)
(* A component is a PyChrono body: its name, its position in half metres,    *)
(* its mass as a fraction of the mass it was created with (integrity) and    *)
(* the number of 0.1 rad rotations applied to it.                            *)

Component(kind, a, b, x2, y2, z2) ==
    [name |-> [kind |-> kind, a |-> a, b |-> b],
     pos |-> [x |-> x2, y |-> y2, z |-> z2],
     integrity |-> Whole(1),
     rot |-> 0]

Footprint(building_type) ==
    IF building_type = "residential" THEN [length |-> 20, width |-> 15]
    ELSE IF building_type = "commercial" THEN [length |-> 30, width |-> 25]
    ELSE IF building_type = "industrial" THEN [length |-> 40, width |-> 30]
    ELSE [length |-> 20, width |-> 15]

column_spacing == 5

FloorSlabs(floors) ==
    [f \in 1..floors |-> Component("Floor", f - 1, 0, 0, 0, (f - 1) * 6)]

\* the grid without the column on the far edge of each row
ColumnsInsideOnly(length, width, floors) ==
    LET num_columns_x == length \div column_spacing
        num_columns_y == width \div column_spacing
    IN  [k \in 1..(num_columns_x * num_columns_y) |->
            LET i == (k - 1) \div num_columns_y
                j == (k - 1) % num_columns_y
            IN  Component("Column", i, j,
                          -length + i * 2 * column_spacing,
                          -width + j * 2 * column_spacing,
                          floors * 3)]

Columns(length, width, floors) ==
    LET num_columns_x == (length \div column_spacing) + 1
        num_columns_y == (width \div column_spacing) + 1
    IN  [k \in 1..(num_columns_x * num_columns_y) |->
            LET i == (k - 1) \div num_columns_y
                j == (k - 1) % num_columns_y
            IN  Component("Column", i, j,
                          -length + i * 2 * column_spacing,
                          -width + j * 2 * column_spacing,
                          floors * 3)]

WallSides == <<"front", "back", "left", "right">>

CreateWalls(length, width, floors) ==
    [k \in 1..(4 * floors) |->
        LET floor == (k - 1) \div 4
            wall == WallSides[((k - 1) % 4) + 1]
        IN  Component("Wall", floor, wall,
                      IF wall = "right" THEN length
                      ELSE IF wall = "left" THEN -length ELSE 0,
                      IF wall = "front" THEN width
                      ELSE IF wall = "back" THEN -width ELSE 0,
                      floor * 6 + 3)]

CreateRoofStructure(comps) ==
    Append(comps, Component("Roof", 0, 0, 0, 0, Len(comps) * 6 + 1))

CreateBuildingStructure(bd) ==
    LET floors == bd.number_of_floors
        fp == Footprint(bd.building_type)
        frame == FloorSlabs(floors) \o Columns(fp.length, fp.width, floors)
        walled == IF bd.building_type \in {"residential", "commercial"}
                  THEN frame \o CreateWalls(fp.length, fp.width, floors)
                  ELSE frame
    IN  IF floors > 1 THEN CreateRoofStructure(walled) ELSE walled

-----------------------------------------------------------------------------
(* _find_components_near_coordinates and _apply_damage_to_structure *)

radius == 5

\* ((pos.x - x) ** 2 + (pos.y - y) ** 2) ** 0.5 <= radius, in half metres
IsNear(component, x, y) ==
    (component.pos.x - 2 * x) * (component.pos.x - 2 * x)
      + (component.pos.y - 2 * y) * (component.pos.y - 2 * y)
      <= (2 * radius) * (2 * radius)

IsColumn(component) == component.name.kind = "Column"
IsFloor0(component) == component.name.kind = "Floor" /\ component.name.a = 0
IsWall(component) == component.name.kind = "Wall"

\* the mass divided by the factor instead of multiplied
ScaleMassDividing(component, factor) ==
    [component EXCEPT !.integrity = RDiv(@, factor)]

\* component.SetMass(component.GetMass() * factor)
ScaleMass(component, factor) ==
    [component EXCEPT !.integrity = RMul(@, factor)]

\* the type's factor applied to every affected component, whatever its kind
DamageComponentAnyKind(component, issue_type) ==
    IF issue_type = "crack" THEN ScaleMass(component, R(7, 10))
    ELSE IF issue_type = "tilting" THEN [component EXCEPT !.rot = @ + 1]
    ELSE IF issue_type = "partial_collapse" THEN ScaleMass(component, R(1, 10))
    ELSE IF issue_type = "foundation_issues" THEN ScaleMass(component, R(3, 10))
    ELSE IF issue_type = "column_damage" THEN ScaleMass(component, R(4, 10))
    ELSE IF issue_type = "wall_damage" THEN ScaleMass(component, R(5, 10))
    ELSE component

DamageComponent(component, issue_type) ==
    IF issue_type = "crack" THEN ScaleMass(component, R(7, 10))
    ELSE IF issue_type = "tilting" THEN [component EXCEPT !.rot = @ + 1]
    ELSE IF issue_type = "partial_collapse" THEN ScaleMass(component, R(1, 10))
    ELSE IF issue_type = "foundation_issues"
         THEN IF IsColumn(component) \/ IsFloor0(component)
              THEN ScaleMass(component, R(3, 10)) ELSE component
    ELSE IF issue_type = "column_damage"
         THEN IF IsColumn(component)
              THEN ScaleMass(component, R(4, 10)) ELSE component
    ELSE IF issue_type = "wall_damage"
         THEN IF IsWall(component)
              THEN ScaleMass(component, R(5, 10)) ELSE component
    ELSE component

\* one iteration of the loop over annotations
ApplyAnnotation(comps, annotation) ==
    [c \in 1..Len(comps) |->
        IF IsNear(comps[c], annotation.position.x, annotation.position.y)
        THEN DamageComponent(comps[c], annotation.issueType)
        ELSE comps[c]]

-----------------------------------------------------------------------------
(* _calculate_risk_metrics *)

\* the age thresholds taken inclusively
AgePointsInclusive(building_age) ==
    IF building_age >= 50 THEN 30
    ELSE IF building_age >= 30 THEN 20
    ELSE IF building_age >= 20 THEN 10
    ELSE 0

AgePoints(building_age) ==
    IF building_age > 50 THEN 30
    ELSE IF building_age > 30 THEN 20
    ELSE IF building_age > 20 THEN 10
    ELSE 0

\* min(a, b)
Min(a, b) == IF b < a THEN b ELSE a

\* the damage contribution without its cap
DamagePointsUncapped(damage_types) == Len(damage_types) * 10

DamagePoints(damage_types) == Min(40, Len(damage_types) * 10)

SafetyFactorPoints(safety_factor) ==
    IF RLt(safety_factor, Whole(1)) THEN 20
    ELSE IF RLt(safety_factor, R(3, 2)) THEN 15
    ELSE IF RLt(safety_factor, Whole(2)) THEN 10
    ELSE 0

FailureTimePoints(failure_time) ==
    IF RLt(failure_time, Whole(2)) THEN 10
    ELSE IF RLt(failure_time, Whole(5)) THEN 5
    ELSE 0

RiskScore(bd, fea, collapse, year) ==
    AgePoints(year - bd.year_built)
      + DamagePoints(bd.damage_types)
      + SafetyFactorPoints(fea.safety_factor)
      + FailureTimePoints(collapse.failure_time)

\* the level thresholds taken exclusively
RiskLevelStrict(risk_score) ==
    IF risk_score > 80 THEN "critical"
    ELSE IF risk_score > 60 THEN "high"
    ELSE IF risk_score > 40 THEN "medium"
    ELSE "low"

RiskLevel(risk_score) ==
    IF risk_score >= 80 THEN "critical"
    ELSE IF risk_score >= 60 THEN "high"
    ELSE IF risk_score >= 40 THEN "medium"
    ELSE "low"

\* the tag given without looking at the estimator that ran
ConfidenceWhenInstalled(fea) == "high"

\* "high" if fea_results.get("analysis_type") == "FEniCS_FEA" else "medium"
Confidence(fea) ==
    IF Get(fea, "analysis_type", "") = "FEniCS_FEA" THEN "high" ELSE "medium"

CalculateRiskMetrics(bd, fea, collapse, year) ==
    LET risk_score == RiskScore(bd, fea, collapse, year)
    IN  [risk_level |-> RiskLevel(risk_score),
         risk_score |-> risk_score,
         safety_factor |-> fea.safety_factor,
         failure_probability |-> fea.failure_probability,
         confidence |-> Confidence(fea)]

-----------------------------------------------------------------------------
(* The requests the model explores *)

DamageTypeLists == {[i \in 1..m |-> "cracks"] : m \in 0..MaxDamageTypes}

Descriptors ==
    [building_type : BuildingTypes,
     number_of_floors : 1..MaxFloors,
     primary_material : Materials,
     year_built : YearsBuilt,
     damage_types : DamageTypeLists]

AnnotationChoices == {Annotation(t, p) : t \in IssueTypes, p \in Positions}

\* long annotation lists: the i-th annotation has the i-th issue type of this
\* cycle, at the footprint centre
IssueCycle == <<"crack", "column_damage", "tilting", "wall_damage",
                "partial_collapse", "foundation_issues">>

CycleList(m) ==
    [i \in 1..m |-> Annotation(IssueCycle[((i - 1) % 6) + 1], [x |-> 0, y |-> 0])]

LongLists == {CycleList(m) : m \in 0..MaxLongList}

\* short annotation lists: every issue type at every position
ShortLists == SeqsUpTo(AnnotationChoices, MaxAnnotations)

\* requests of the whole assessment: every descriptor of one building type,
\* with the long lists
AssessmentRequests ==
    {d \in Descriptors : d.building_type = "residential"} \X LongLists

\* requests of the collapse simulation, which reads the building type, the
\* floor count and the annotations only
CollapseRequests ==
    {d \in Descriptors : /\ d.number_of_floors <= 2
                         /\ d.primary_material = "concrete"
                         /\ d.year_built = 1996
                         /\ d.damage_types = <<>>} \X ShortLists

-----------------------------------------------------------------------------
(* The state machine: one call of analyze_structural_damage *)

InitWith(requests, start) ==
    /\ pc = start
    /\ \E rq \in requests : building_data = rq[1] /\ annotations = rq[2]
    /\ FENICS_AVAILABLE \in BOOLEAN
    /\ PYCHRONO_AVAILABLE \in BOOLEAN
    /\ clock_year = StartYear
    /\ fea_locals = None
    /\ fea_results = None
    /\ components = <<>>
    /\ ann_idx = 0
    /\ collapse_simulation = None
    /\ risk_metrics = None
    /\ result = None
    /\ previous = None
    /\ clock_ticks = 0
    /\ simulation_ids = <<>>

Init == InitWith(AssessmentRequests, "idle")

inputs == <<building_data, annotations, FENICS_AVAILABLE, PYCHRONO_AVAILABLE>>

Invoke ==
    /\ pc = "idle"
    /\ pc' = "fea"
    /\ UNCHANGED <<route_state, inputs, clock_year, fea_locals, fea_results,
                   components,
                   ann_idx, collapse_simulation, risk_metrics, result, previous>>

FeaDone(locals, results) ==
    /\ fea_locals' = locals
    /\ fea_results' = results
    /\ pc' = "collapse"
    /\ UNCHANGED <<route_state, inputs, clock_year, components, ann_idx,
                   collapse_simulation, risk_metrics, result, previous>>

\* _perform_fea_analysis, FEniCS not installed
PerformFeaSimplified ==
    /\ pc = "fea"
    /\ ~FENICS_AVAILABLE
    /\ FeaDone(SimplifiedFeaLocals(building_data, clock_year),
               SimplifiedFeaAnalysis(building_data, annotations, clock_year))

\* _perform_fea_analysis, FEniCS installed and solving
PerformFeaFenics ==
    /\ pc = "fea"
    /\ FENICS_AVAILABLE
    /\ \E stress_draws \in [1..NumSamples -> RandomTenths],
          strain_draws \in [1..NumSamples -> RandomTenths] :
         FeaDone(FenicsFeaLocals(building_data, clock_year),
                 FenicsFeaAnalysis(building_data, annotations, clock_year,
                                   stress_draws, strain_draws))

\* FEniCS raising without an except branch: the exception leaves the method
\* and analyze_structural_damage ends in "Structural analysis failed"
PerformFeaRaise ==
    /\ pc = "fea"
    /\ FENICS_AVAILABLE
    /\ pc' = "failed"
    /\ UNCHANGED <<route_state, inputs, clock_year, fea_locals, fea_results,
                   components,
                   ann_idx, collapse_simulation, risk_metrics, result, previous>>

\* _perform_fea_analysis, FEniCS installed and raising: the except branch
PerformFeaFallback ==
    /\ pc = "fea"
    /\ FENICS_AVAILABLE
    /\ FeaDone(SimplifiedFeaLocals(building_data, clock_year),
               SimplifiedFeaAnalysis(building_data, annotations, clock_year))

CollapseDone(simulation) ==
    /\ collapse_simulation' = simulation
    /\ pc' = "risk"
    /\ UNCHANGED <<route_state, inputs, clock_year, fea_locals, fea_results,
                   components,
                   ann_idx, risk_metrics, result, previous>>

\* _run_collapse_simulation, PyChrono not installed
RunCollapseSimplified ==
    /\ pc = "collapse"
    /\ ~PYCHRONO_AVAILABLE
    /\ CollapseDone(SimplifiedCollapseSimulation(building_data, annotations))

\* _run_collapse_simulation, PyChrono installed: the structure is built
BuildStructure ==
    /\ pc = "collapse"
    /\ PYCHRONO_AVAILABLE
    /\ components' = CreateBuildingStructure(building_data)
    /\ ann_idx' = 1
    /\ pc' = "damage"
    /\ UNCHANGED <<route_state, inputs, clock_year, fea_locals, fea_results,
                   collapse_simulation, risk_metrics, result, previous>>

\* one iteration of the loop of _apply_damage_to_structure
ApplyDamage ==
    /\ pc = "damage"
    /\ ann_idx <= Len(annotations)
    /\ components' = ApplyAnnotation(components, annotations[ann_idx])
    /\ ann_idx' = ann_idx + 1
    /\ UNCHANGED <<route_state, pc, inputs, clock_year, fea_locals, fea_results,
                   collapse_simulation, risk_metrics, result, previous>>

\* _run_chrono_simulation and the return of _run_collapse_simulation
RunChronoSimulation ==
    /\ pc = "damage"
    /\ ann_idx > Len(annotations)
    /\ CollapseDone(ChronoSimulation(components))

\* PyChrono raising anywhere in the try block: the except branch
RunCollapseFallback ==
    /\ pc \in {"collapse", "damage"}
    /\ PYCHRONO_AVAILABLE
    /\ CollapseDone(SimplifiedCollapseSimulation(building_data, annotations))

AssessmentResult(metrics, fea, collapse, year) ==
    [risk_level |-> metrics.risk_level,
     fea_results |-> fea,
     collapse_simulation |-> collapse,
     risk_metrics |-> metrics,
     simulation_video_data |-> [collapse_sequence |-> collapse.collapse_sequence,
                                debris_pattern |-> collapse.debris_pattern,
                                safety_zones |-> collapse.safety_zones],
     confidence |-> metrics.confidence,
     generated_at |-> year]

\* steps 3 to 5 of analyze_structural_damage and its return
ReturnAssessment ==
    /\ pc = "risk"
    /\ LET metrics == CalculateRiskMetrics(building_data, fea_results,
                                           collapse_simulation, clock_year)
       IN  /\ risk_metrics' = metrics
           /\ result' = AssessmentResult(metrics, fea_results,
                                         collapse_simulation, clock_year)
    /\ pc' = "done"
    /\ UNCHANGED <<route_state, inputs, clock_year, fea_locals, fea_results,
                   components,
                   ann_idx, collapse_simulation, previous>>

Next ==
    \/ Invoke
    \/ PerformFeaSimplified
    \/ PerformFeaFenics
    \/ PerformFeaFallback
    \/ RunCollapseSimplified
    \/ BuildStructure
    \/ ApplyDamage
    \/ RunChronoSimulation
    \/ RunCollapseFallback
    \/ ReturnAssessment

Spec == Init /\ [][Next]_vars

-----------------------------------------------------------------------------
(* _run_collapse_simulation on its own, entered at its first line *)

InitCollapse ==
    /\ InitWith(CollapseRequests, "collapse")
    /\ ~FENICS_AVAILABLE

NextCollapse ==
    \/ RunCollapseSimplified
    \/ BuildStructure
    \/ ApplyDamage
    \/ RunChronoSimulation
    \/ RunCollapseFallback

SpecCollapse == InitCollapse /\ [][NextCollapse]_vars

-----------------------------------------------------------------------------
(* _run_collapse_simulation for every building type of the schema *)

StructureRequests ==
    [building_type : BuildingTypeEnum,
     number_of_floors : 1..MaxFloors,
     primary_material : {"concrete"},
     year_built : {1996},
     damage_types : {<<>>}]
      \X {CycleList(m) : m \in 0..1}

InitStructure == InitWith(StructureRequests, "collapse")

SpecStructure == InitStructure /\ [][NextCollapse]_vars

-----------------------------------------------------------------------------
(* A client calling analyze_structural_damage twice on one service object,   *)
(* the second time with the same annotation list or with one more            *)
(* annotation, while the calendar moves on.                                  *)

RepeatRequests ==
    {d \in Descriptors : /\ d.building_type = "residential"
                         /\ d.number_of_floors = 2
                         /\ d.primary_material = "concrete"
                         /\ d.year_built \in {1976, 1996}
                         /\ d.damage_types = <<>>}
      \X {CycleList(m) : m \in 0..1}

InitRepeat == InitWith(RepeatRequests, "idle")

\* the calendar year changes between two reads of datetime.now()
Tick ==
    /\ clock_year < StartYear + MaxTicks
    /\ clock_year' = clock_year + 1
    /\ UNCHANGED <<route_state, pc, inputs, fea_locals, fea_results, components, ann_idx,
                   collapse_simulation, risk_metrics, result, previous>>

Reinvoke ==
    /\ pc = "done"
    /\ previous = None
    /\ previous' = [annotations |-> annotations, result |-> result]
    /\ \/ annotations' = annotations
       \/ \E t \in IssueTypes :
            annotations' = Append(annotations, Annotation(t, [x |-> 0, y |-> 0]))
    /\ pc' = "fea"
    /\ fea_locals' = None
    /\ fea_results' = None
    /\ components' = <<>>
    /\ ann_idx' = 0
    /\ collapse_simulation' = None
    /\ risk_metrics' = None
    /\ result' = None
    /\ UNCHANGED <<route_state, building_data, FENICS_AVAILABLE, PYCHRONO_AVAILABLE,
                   clock_year>>

NextRepeat ==
    \/ Next
    \/ Tick
    \/ Reinvoke

SpecRepeat == InitRepeat /\ [][NextRepeat]_vars

-----------------------------------------------------------------------------
(* The worked scenarios: a sound residential building, the same building     *)
(* assessed again with two column damage annotations, and an old industrial  *)
(* steel building with a partial collapse.                                   *)

ScenarioA ==
    [building_type |-> "residential",
     number_of_floors |-> 5,
     primary_material |-> "concrete",
     year_built |-> 1995,
     damage_types |-> <<>>]

ScenarioC ==
    {[building_type |-> "industrial",
      number_of_floors |-> 10,
      primary_material |-> "steel",
      year_built |-> 1960,
      damage_types |-> dt] : dt \in {<<>>, <<"partial_collapse">>}}

ScenarioRequests ==
    {<<ScenarioA, <<>>>>}
      \cup {<<d, <<Annotation("partial_collapse", p)>>>> :
               d \in ScenarioC, p \in Positions}

InitScenario == InitWith(ScenarioRequests, "idle")

\* the client of scenario A calls again, with two column damage annotations
\* at two different positions
AddColumnDamage ==
    /\ pc = "done"
    /\ previous = None
    /\ building_data = ScenarioA
    /\ previous' = [annotations |-> annotations, result |-> result]
    /\ \E p1 \in Positions :
         \E p2 \in Positions \ {p1} :
            annotations' = <<Annotation("column_damage", p1),
                             Annotation("column_damage", p2)>>
    /\ pc' = "fea"
    /\ fea_locals' = None
    /\ fea_results' = None
    /\ components' = <<>>
    /\ ann_idx' = 0
    /\ collapse_simulation' = None
    /\ risk_metrics' = None
    /\ result' = None
    /\ UNCHANGED <<route_state, building_data, FENICS_AVAILABLE, PYCHRONO_AVAILABLE,
                   clock_year>>

NextScenario ==
    \/ Next
    \/ AddColumnDamage

SpecScenario == InitScenario /\ [][NextScenario]_vars

-----------------------------------------------------------------------------
(* analyze_structural_damage called with building_data and annotations as a  *)
(* client may send them: the material field absent, and values outside the   *)
(* domains the schemas declare.                                              *)

\* class MaterialType and valid_types of AssessmentCreate
MaterialTypeEnum == {"concrete", "brick", "steel", "wood", "mixed"}
valid_types == {"cracks", "tilting", "partial_collapse",
                       "column_damage", "wall_damage", "foundation_issues"}

RawMaterials == {"concrete", "steel", "mixed", "Concrete", ""}
RawFloors == {-1, 0, 2}

DescriptorsWithoutMaterial ==
    [building_type : {"residential", "castle"},
     number_of_floors : RawFloors,
     year_built : {1826, 1996, 2035},
     damage_types : {<<>>, <<"mold">>}]

RawDescriptors ==
    DescriptorsWithoutMaterial
      \cup {[key \in DOMAIN d \cup {"primary_material"} |->
                IF key = "primary_material" THEN m ELSE d[key]] :
               d \in DescriptorsWithoutMaterial, m \in RawMaterials}

RawAnnotationLists ==
    {<<>>,
     <<Annotation("crack", [x |-> 0, y |-> 0])>>,
     <<Annotation("graffiti", [x |-> 0, y |-> 0])>>}

RawRequests == RawDescriptors \X RawAnnotationLists

InitRaw == InitWith(RawRequests, "idle")

SpecRaw == InitRaw /\ [][Next]_vars

-----------------------------------------------------------------------------
(* The /analyze route: it calls analyze_structural_damage, schedules         *)
(* _generate_simulation_video with the dict it got back, and answers.        *)

RouteRequests ==
    {d \in Descriptors : /\ d.building_type = "residential"
                         /\ d.number_of_floors <= 2
                         /\ d.year_built = 1996
                         /\ d.damage_types \in {<<>>, <<"cracks">>}}
      \X {CycleList(m) : m \in 0..1}

InitRoute == InitWith(RouteRequests, "idle")

\* dict.update(other): the keys of other are added or overwritten
Update(dict, other) ==
    [key \in DOMAIN dict \cup DOMAIN other |->
        IF key \in DOMAIN other THEN other[key] ELSE dict[key]]

\* the background task: enhanced_data is the simulation_video_data dict of
\* analysis_result itself, and update() writes into it
GenerateSimulationVideo ==
    /\ pc = "done"
    /\ LET enhanced_data == Get(result, "simulation_video_data", <<>>)
           added == [building_data |-> building_data,
                     annotations |-> annotations,
                     fea_results |-> result.fea_results,
                     collapse_simulation |-> result.collapse_simulation,
                     risk_level |-> result.risk_level,
                     safety_factor |-> result.risk_metrics.safety_factor,
                     failure_probability |->
                         result.risk_metrics.failure_probability]
       IN  result' = [result EXCEPT
                        !.simulation_video_data = Update(enhanced_data, added)]
    /\ pc' = "video"
    /\ UNCHANGED <<route_state, inputs, clock_year, fea_locals, fea_results,
                   components,
                   ann_idx, collapse_simulation, risk_metrics, previous>>

NextRoute ==
    \/ Next
    \/ GenerateSimulationVideo

SpecRoute == InitRoute /\ [][NextRoute]_vars

-----------------------------------------------------------------------------
(* /analyze requests one after another: each gets its simulation_id from the *)
(* clock when the service call has returned.                                 *)

\* resolution of the modelled clock: ticks in one second
TicksPerSecond == 2

\* f"sim_{datetime.now().strftime('%Y%m%d_%H%M%S')}": the time cut to whole
\* seconds
SimulationId(ticks) == [prefix |-> "sim", stamp |-> ticks \div TicksPerSecond]

\* os.path.join(output_dir, f"{simulation_id}.mp4")
OutputPath(simulation_id) ==
    [dir |-> "simulation_videos", name |-> simulation_id, ext |-> "mp4"]

InitIds == InitWith(RouteRequests, "idle")

\* time passes in the route
TickClock ==
    /\ clock_ticks < MaxClockTicks
    /\ clock_ticks' = clock_ticks + 1
    /\ UNCHANGED <<pc, inputs, clock_year, fea_locals, fea_results, components,
                   ann_idx, collapse_simulation, risk_metrics, result, previous,
                   simulation_ids>>

\* the route after the service call: the id is taken, the video task is
\* scheduled with it and the response is sent
AnalyzeRespond ==
    /\ pc = "done"
    /\ simulation_ids' = Append(simulation_ids, SimulationId(clock_ticks))
    /\ pc' = "responded"
    /\ UNCHANGED <<inputs, clock_year, fea_locals, fea_results, components,
                   ann_idx, collapse_simulation, risk_metrics, result, previous,
                   clock_ticks>>

\* the next request for the same building arrives
NextRequest ==
    /\ pc = "responded"
    /\ Len(simulation_ids) < MaxRequests
    /\ pc' = "idle"
    /\ fea_locals' = None
    /\ fea_results' = None
    /\ components' = <<>>
    /\ ann_idx' = 0
    /\ collapse_simulation' = None
    /\ risk_metrics' = None
    /\ result' = None
    /\ UNCHANGED <<inputs, clock_year, previous, route_state>>

NextIds ==
    \/ Next
    \/ TickClock
    \/ AnalyzeRespond
    \/ NextRequest

SpecIds == InitIds /\ [][NextIds]_vars

-----------------------------------------------------------------------------
(* Properties *)

REq(a, b) == a.n * b.d = b.n * a.d

\* the building age _calculate_risk_metrics reads
BuildingAge == clock_year - building_data.year_built

\* C1: the risk score of every assessment is an integer from 0 to 100,
\* whatever the age, the damage types, the safety factor (the unbounded
\* sentinel included) and the failure time.
C1_RiskScoreInRange ==
    risk_metrics # None => risk_metrics.risk_score \in 0..100

\* an assessment without damage types and annotations whose safety factor is
\* the unbounded sentinel
C1_Witness ==
    /\ pc = "done"
    /\ building_data.damage_types = <<>>
    /\ annotations = <<>>
    /\ result.risk_metrics.safety_factor = Inf
    /\ result.risk_metrics.risk_score \in 0..100

\* C2: the failure probability reported in an assessment lies in [0, 1],
\* whichever stress estimator produced it.
C2_FailureProbabilityInRange ==
    pc = "done" =>
        /\ RLe(Whole(0), result.risk_metrics.failure_probability)
        /\ RLe(result.risk_metrics.failure_probability, Whole(1))
        /\ result.risk_metrics.failure_probability
             = result.fea_results.failure_probability

\* an assessment without annotations, by the high-fidelity estimator, with a
\* probability strictly inside the interval
C2_Witness ==
    /\ pc = "done"
    /\ annotations = <<>>
    /\ result.fea_results.analysis_type = "FEniCS_FEA"
    /\ RLt(Whole(0), result.risk_metrics.failure_probability)
    /\ RLt(result.risk_metrics.failure_probability, Whole(1))

ZonesOfLevel(zones, level) ==
    {i \in DOMAIN zones : zones[i].safety_level = level}

ZoneRadius(zones, level) ==
    zones[CHOOSE i \in ZonesOfLevel(zones, level) : TRUE].radius

\* C5: every collapse simulation returns exactly three safety zones, one of
\* each level, with radii danger < caution < safe.
C5_ZonesOrdered ==
    collapse_simulation # None =>
        LET zones == collapse_simulation.safety_zones
        IN  /\ Len(zones) = 3
            /\ \A level \in {"danger", "caution", "safe"} :
                 Cardinality(ZonesOfLevel(zones, level)) = 1
            /\ ZoneRadius(zones, "danger") < ZoneRadius(zones, "caution")
            /\ ZoneRadius(zones, "caution") < ZoneRadius(zones, "safe")

\* zones of a one-floor building, produced by the simplified simulator
C5_Witness ==
    /\ collapse_simulation # None
    /\ collapse_simulation.simulation_type = "Simplified_Physics"
    /\ building_data.number_of_floors = 1
    /\ ZoneRadius(collapse_simulation.safety_zones, "danger") = 2

\* C8: the age factor the stress estimator used is max(0.3, 1 - 0.01 * age):
\* (100 - age) / 100 while that is above 0.3 and 0.3 from then on; never below
\* 0.3; exactly 0.3 at 200 years.
C8_AgeFactor ==
    fea_locals # None =>
        /\ fea_locals.age = BuildingAge
        /\ IF 100 - fea_locals.age > 30
           THEN REq(fea_locals.age_factor, [n |-> 100 - fea_locals.age, d |-> 100])
           ELSE REq(fea_locals.age_factor, [n |-> 3, d |-> 10])
        /\ RLe([n |-> 3, d |-> 10], fea_locals.age_factor)
        /\ fea_locals.age = 200 => fea_locals.age_factor = [n |-> 3, d |-> 10]

\* a 200 year old building
C8_Witness ==
    /\ fea_locals # None
    /\ fea_locals.age = 200
    /\ fea_locals.age_factor = [n |-> 3, d |-> 10]

ClaimedAgeContribution(age) ==
    CASE age > 50 -> 30
      [] age > 30 /\ age <= 50 -> 20
      [] age > 20 /\ age <= 30 -> 10
      [] OTHER -> 0

ClaimedDamageContribution(count) == IF 10 * count > 40 THEN 40 ELSE 10 * count

\* sf, ft: rationals n/d with d >= 0
ClaimedSafetyContribution(sf) ==
    CASE sf.n < sf.d -> 20
      [] sf.n >= sf.d /\ 2 * sf.n < 3 * sf.d -> 15
      [] 2 * sf.n >= 3 * sf.d /\ sf.n < 2 * sf.d -> 10
      [] OTHER -> 0

ClaimedTimeContribution(ft) ==
    CASE ft.n < 2 * ft.d -> 10
      [] ft.n >= 2 * ft.d /\ ft.n < 5 * ft.d -> 5
      [] OTHER -> 0

\* C9: the risk score is the sum of the age, damage, safety factor and
\* failure time contributions.
C9_RiskScoreSum ==
    pc = "done" =>
        result.risk_metrics.risk_score
          = ClaimedAgeContribution(BuildingAge)
            + ClaimedDamageContribution(Len(building_data.damage_types))
            + ClaimedSafetyContribution(result.fea_results.safety_factor)
            + ClaimedTimeContribution(result.collapse_simulation.failure_time)

\* an assessment in which the four contributions are 20, 30, 15 and 5
C9_Witness ==
    /\ pc = "done"
    /\ BuildingAge > 30 /\ BuildingAge <= 50
    /\ Len(building_data.damage_types) = 3
    /\ RLe(Whole(1), result.fea_results.safety_factor)
    /\ RLt(result.fea_results.safety_factor, R(3, 2))
    /\ RLe(Whole(2), result.collapse_simulation.failure_time)
    /\ RLt(result.collapse_simulation.failure_time, Whole(5))
    /\ result.risk_metrics.risk_score = 70

\* C10: the risk level is decided by the risk score alone: critical from 80,
\* high from 60 to 79, medium from 40 to 59, low below 40.
C10_RiskLevel ==
    pc = "done" =>
        LET score == result.risk_metrics.risk_score
            level == result.risk_metrics.risk_level
        IN  /\ level = "critical" <=> score >= 80
            /\ level = "high" <=> (score >= 60 /\ score < 80)
            /\ level = "medium" <=> (score >= 40 /\ score < 60)
            /\ level = "low" <=> score < 40
            /\ result.risk_level = level

\* an assessment whose score is exactly 80
C10_Witness ==
    /\ pc = "done"
    /\ result.risk_metrics.risk_score = 80
    /\ result.risk_level = "critical"

\* C6: every component's integrity lies in [0.05, 1.0] however many
\* annotations were applied.
C6_IntegrityInRange ==
    \A c \in DOMAIN components :
        /\ RLe(R(5, 100), components[c].integrity)
        /\ RLe(components[c].integrity, Whole(1))

\* C7: applying an annotation never increases the integrity of a component.
C7_IntegrityNeverIncreases ==
    [][\A c \in DOMAIN components :
          c \in DOMAIN components' =>
              RLe(components'[c].integrity, components[c].integrity)]_vars

\* two annotations have been applied and both lowered the integrity of one
\* component
C7_Witness ==
    /\ pc = "damage"
    /\ ann_idx = 3
    /\ \E c \in DOMAIN components :
         /\ RLt(components[c].integrity,
                ApplyAnnotation(CreateBuildingStructure(building_data),
                                annotations[1])[c].integrity)
         /\ RLt(ApplyAnnotation(CreateBuildingStructure(building_data),
                                annotations[1])[c].integrity, Whole(1))

PrefixOf(short, long) ==
    /\ Len(short) <= Len(long)
    /\ SubSeq(long, 1, Len(short)) = short

\* C3: a second assessment of the same descriptor with one more annotation
\* has a safety factor that is not greater and a risk score that is not
\* smaller.
C3_Monotone ==
    (pc = "done" /\ previous # None
       /\ Len(annotations) = Len(previous.annotations) + 1
       /\ PrefixOf(previous.annotations, annotations)) =>
        /\ RLe(result.risk_metrics.safety_factor,
               previous.result.risk_metrics.safety_factor)
        /\ result.risk_metrics.risk_score
             >= previous.result.risk_metrics.risk_score

\* the fields of an assessment the determinism contract names
Contract(r) ==
    [safety_factor |-> r.risk_metrics.safety_factor,
     failure_probability |-> r.risk_metrics.failure_probability,
     risk_level |-> r.risk_level,
     risk_score |-> r.risk_metrics.risk_score,
     confidence |-> r.confidence,
     critical_points |-> r.fea_results.critical_points,
     safety_zones |-> r.collapse_simulation.safety_zones,
     failure_time |-> r.collapse_simulation.failure_time]

\* C4: two assessments of the same descriptor and annotation list agree on
\* every field of the contract.
C4_Deterministic ==
    (pc = "done" /\ previous # None /\ annotations = previous.annotations) =>
        Contract(result) = Contract(previous.result)

\* C11: the confidence tag is "high" exactly when the reported stress results
\* came from the FEniCS branch, and "medium" whenever the simplified estimator
\* produced them, also after FEniCS was tried and raised.
C11_ConfidenceTag ==
    pc = "done" =>
        LET by_fenics == fea_locals.material_props # None
        IN  /\ result.confidence = (IF by_fenics THEN "high" ELSE "medium")
            /\ result.risk_metrics.confidence = result.confidence
            /\ by_fenics <=> result.fea_results.analysis_type = "FEniCS_FEA"
            /\ ~FENICS_AVAILABLE => result.confidence = "medium"

\* FEniCS is installed, raised, and the simplified results are tagged medium
C11_Witness ==
    /\ pc = "done"
    /\ FENICS_AVAILABLE
    /\ fea_locals.material_props = None
    /\ result.fea_results.analysis_type = "Simplified_FEA"
    /\ result.confidence = "medium"

\* C12: scenario A (residential, 5 floors, concrete, 1995, nothing damaged)
\* is rated low or medium, its score is the age contribution alone, and its
\* safety factor is finite and above 1.
C12_ScenarioA ==
    (pc = "done" /\ building_data = ScenarioA /\ annotations = <<>>) =>
        /\ result.risk_level \in {"low", "medium"}
        /\ result.risk_metrics.risk_score = ClaimedAgeContribution(BuildingAge)
        /\ result.risk_metrics.safety_factor # Inf
        /\ RLt(Whole(1), result.risk_metrics.safety_factor)

\* C13: scenario B (scenario A with two column damage annotations at
\* different positions) has a strictly greater risk score and a strictly
\* lower safety factor than scenario A.
C13_ScenarioB ==
    (pc = "done" /\ building_data = ScenarioA /\ previous # None
       /\ previous.annotations = <<>> /\ Len(annotations) = 2) =>
        /\ result.risk_metrics.risk_score
             > previous.result.risk_metrics.risk_score
        /\ RLt(result.risk_metrics.safety_factor,
               previous.result.risk_metrics.safety_factor)

\* C14: scenario C (industrial, 10 floors, steel, 1960, one partial collapse
\* annotation) is rated critical, with a failure time below 5 s that earns a
\* failure time contribution.
C14_ScenarioC ==
    (pc = "done" /\ building_data \in ScenarioC) =>
        /\ result.risk_level = "critical"
        /\ RLt(result.collapse_simulation.failure_time, Whole(5))
        /\ ClaimedTimeContribution(result.collapse_simulation.failure_time) > 0

\* the material field is absent, or holds a string that is no key of the table
\* and no value of MaterialType
MaterialMissingOrMalformed ==
    \/ "primary_material" \notin DOMAIN building_data
    \/ building_data.primary_material \notin MaterialTypeEnum

ClaimedAgeFactor(age) ==
    IF 100 - age > 30 THEN [n |-> 100 - age, d |-> 100] ELSE [n |-> 3, d |-> 10]

\* C15: with the material field missing or malformed the lookup completes and
\* returns the concrete entry with its modulus and strengths scaled by the age
\* factor.
C15_ConcreteFallback ==
    MaterialMissingOrMalformed =>
        /\ (fea_results # None /\ fea_results.analysis_type = "FEniCS_FEA") =>
             fea_locals.material_props # None
        /\ (fea_locals # None /\ fea_locals.material_props # None) =>
             LET props == fea_locals.material_props
                 af == ClaimedAgeFactor(BuildingAge)
             IN  /\ DOMAIN props = {"elastic_modulus", "compressive_strength",
                                    "tensile_strength", "density"}
                 /\ REq(props.elastic_modulus, RMul(Whole(30000), af))
                 /\ REq(props.compressive_strength, RMul(Whole(30), af))
                 /\ REq(props.tensile_strength, RMul(Whole(3), af))
                 /\ REq(props.density, Whole(2400))

\* the lookup ran for a 30 year old building without a material field
C15_Witness ==
    /\ pc = "collapse"
    /\ "primary_material" \notin DOMAIN building_data
    /\ BuildingAge = 30
    /\ fea_locals.material_props # None
    /\ fea_locals.material_props.compressive_strength = Whole(21)

\* C16: a lookup with a supplied key that has no entry in the table never
\* returns properties; properties are returned for keys of the table only.
C16_UnknownMaterialError ==
    (/\ fea_locals # None
     /\ fea_locals.material_props # None
     /\ "primary_material" \in DOMAIN building_data) =>
        building_data.primary_material \in DOMAIN base_properties

\* the fields analyze_structural_damage returns (the text report excepted)
ResultFields ==
    {"risk_level", "fea_results", "collapse_simulation", "risk_metrics",
     "simulation_video_data", "confidence", "generated_at"}

FullAssessment ==
    /\ DOMAIN result = ResultFields
    /\ result.fea_results.analysis_type \in {"FEniCS_FEA", "Simplified_FEA"}
    /\ result.collapse_simulation.simulation_type
         \in {"PyChrono_Physics", "Simplified_Physics"}
    /\ ~FENICS_AVAILABLE => result.fea_results.analysis_type = "Simplified_FEA"
    /\ ~PYCHRONO_AVAILABLE =>
         result.collapse_simulation.simulation_type = "Simplified_Physics"

\* the positions of a call in the order it passes them
Stage(position) ==
    CASE position = "idle" -> 0
      [] position = "fea" -> 1
      [] position = "collapse" -> 2
      [] position = "damage" -> 3
      [] position = "risk" -> 4
      [] position = "done" -> 5
      [] OTHER -> -1

\* C17: with each solver absent, present or raising, every step of the call
\* moves it on towards its return, the call never ends in the solver's
\* failure, and what it returns is a full assessment in which the step of an
\* absent solver is the simplified one.
C17_SolverFailureNeverReturned ==
    /\ [](Stage(pc) >= 0)
    /\ [](pc = "done" => FullAssessment)
    /\ [][\/ Stage(pc') > Stage(pc)
          \/ Stage(pc') = Stage(pc) /\ ann_idx' > ann_idx]_vars

\* both solvers are installed, both raised, and the assessment is complete
C17_Witness ==
    /\ pc = "done"
    /\ FENICS_AVAILABLE
    /\ PYCHRONO_AVAILABLE
    /\ result.fea_results.analysis_type = "Simplified_FEA"
    /\ result.collapse_simulation.simulation_type = "Simplified_Physics"
    /\ DOMAIN result = ResultFields

\* C18: once an assessment has been returned, no step changes the result or
\* anything nested in it.
C18_ResultNeverMutated ==
    [][result # None => result' = result]_vars

\* compressive strength of the material, or yield strength where the table
\* has no compressive strength
MaterialStrength(material) ==
    LET props == base_properties[material]
    IN  IF "compressive_strength" \in DOMAIN props
        THEN props.compressive_strength ELSE props.yield_strength

\* C19: for every material the safety factor is the material's strength
\* (degraded by age, or undegraded against a stress that already carries the
\* degradation) divided by the reported stress when that is above 0, and the
\* unbounded sentinel when it is 0.
C19_SafetyFactorFromStrength ==
    (fea_results # None /\ building_data.primary_material \in DOMAIN base_properties) =>
        LET stress == MaxSeq(fea_results.stress_distribution)
            strength == MaterialStrength(building_data.primary_material)
            aged == RMul(strength, ClaimedAgeFactor(BuildingAge))
        IN  IF RLt(Whole(0), stress)
            THEN \/ REq(RMul(fea_results.safety_factor, stress), strength)
                 \/ REq(RMul(fea_results.safety_factor, stress), aged)
            ELSE fea_results.safety_factor = Inf

\* a value of the request lies outside its declared domain
InvalidRequest ==
    \/ building_data.building_type \notin BuildingTypeEnum
    \/ /\ "primary_material" \in DOMAIN building_data
       /\ building_data.primary_material \notin MaterialTypeEnum
    \/ building_data.number_of_floors <= 0
    \/ \E i \in DOMAIN building_data.damage_types :
         building_data.damage_types[i] \notin valid_types
    \/ \E i \in DOMAIN annotations : annotations[i].issueType \notin IssueTypes

\* C20: with a value outside its declared domain no assessment computation
\* runs and no assessment is returned.
C20_InvalidInputRejected ==
    InvalidRequest =>
        /\ fea_results = None
        /\ collapse_simulation = None
        /\ components = <<>>
        /\ result = None

\* C21: for every material of the table and every age the lookup returns the
\* elastic modulus and every strength (compressive, yield, tensile) multiplied
\* by the age factor and the density as it stands in the table.
C21_AgeFactorScalesStrengths ==
    (/\ fea_locals # None
     /\ fea_locals.material_props # None
     /\ building_data.primary_material \in DOMAIN base_properties) =>
        LET base == base_properties[building_data.primary_material]
            props == fea_locals.material_props
            af == ClaimedAgeFactor(BuildingAge)
        IN  /\ DOMAIN props = DOMAIN base
            /\ \A key \in DOMAIN base :
                 REq(props[key], IF key = "density" THEN base[key]
                                 ELSE RMul(base[key], af))

ClaimedFactor(issue_type) ==
    CASE issue_type = "crack" -> R(7, 10)
      [] issue_type = "partial_collapse" -> R(1, 10)
      [] issue_type = "foundation_issues" -> R(3, 10)
      [] issue_type = "column_damage" -> R(4, 10)
      [] issue_type = "wall_damage" -> R(5, 10)
      [] OTHER -> Whole(1)

ClaimedEligible(issue_type, name) ==
    CASE issue_type \in {"crack", "partial_collapse"} -> TRUE
      [] issue_type = "foundation_issues" ->
           name.kind = "Column" \/ (name.kind = "Floor" /\ name.a = 0)
      [] issue_type = "column_damage" -> name.kind = "Column"
      [] issue_type = "wall_damage" -> name.kind = "Wall"
      [] OTHER -> FALSE

\* C22: applying one annotation multiplies the integrity of each affected
\* component of an eligible kind once by the type's factor and leaves the
\* integrity of every other component as it was; tilting changes none.
C22_AnnotationAppliedOnce ==
    [][(pc = "damage" /\ ann_idx' = ann_idx + 1) =>
          LET annotation == annotations[ann_idx]
          IN  /\ Len(components') = Len(components)
              /\ \A c \in DOMAIN components :
                   REq(components'[c].integrity,
                       IF /\ IsNear(components[c], annotation.position.x,
                                    annotation.position.y)
                          /\ ClaimedEligible(annotation.issueType,
                                             components[c].name)
                       THEN RMul(components[c].integrity,
                                 ClaimedFactor(annotation.issueType))
                       ELSE components[c].integrity)]_vars

\* one column damage annotation has been applied: a column near it keeps 0.4
\* of its mass, the floor slab near it keeps all of it
C22_Witness ==
    /\ pc = "damage"
    /\ ann_idx = 2
    /\ annotations[1].issueType = "column_damage"
    /\ \E c \in DOMAIN components :
         components[c].name.kind = "Column" /\ components[c].integrity = R(4, 10)
    /\ \E c \in DOMAIN components :
         /\ components[c].name.kind = "Floor"
         /\ IsNear(components[c], annotations[1].position.x,
                   annotations[1].position.y)
         /\ components[c].integrity = Whole(1)

\* squared distance, in half metres, from a component to the point
\* ((pos.x - 0.5) * length, (pos.y - 0.5) * width, pos.y * total_height)
ProjectedDistanceSquared(component, position, bd) ==
    LET fp == Footprint(bd.building_type)
        total_height == bd.number_of_floors * 3
        dx == component.pos.x - (2 * position.x - 1) * fp.length
        dy == component.pos.y - (2 * position.y - 1) * fp.width
        dz == component.pos.z - 2 * position.y * total_height
    IN  dx * dx + dy * dy + dz * dz

\* C23: the components a crack annotation at a normalised position changes
\* are exactly those within 5 m, in three dimensions, of the projected point.
C23_AffectedByProjectedDistance ==
    (/\ pc = "damage"
     /\ ann_idx = 2
     /\ annotations[1].issueType = "crack"
     /\ annotations[1].position.x \in {0, 1}
     /\ annotations[1].position.y \in {0, 1}) =>
        {c \in DOMAIN components : components[c].integrity # Whole(1)}
          = {c \in DOMAIN components :
               ProjectedDistanceSquared(components[c], annotations[1].position,
                                        building_data) <= 100}

ClaimedIncrement(issue_type) ==
    CASE issue_type \in {"crack", "tilting", "partial_collapse"} -> R(2, 10)
      [] issue_type \in {"foundation_issues", "column_damage"} -> R(5, 10)
      [] OTHER -> Whole(0)

RECURSIVE ClaimedMultiplier(_)
ClaimedMultiplier(anns) ==
    IF anns = <<>> THEN Whole(1)
    ELSE RAdd(ClaimedIncrement(Head(anns).issueType),
              ClaimedMultiplier(Tail(anns)))

\* C24: the stress behind the safety factor is floors * 3.0 * 9.81 times the
\* damage multiplier (1 plus 0.2 or 0.5 per annotation by type) divided by the
\* age factor.
C24_NominalStress ==
    fea_results # None =>
        REq(MaxSeq(fea_results.stress_distribution),
            RDiv(RMul(RMul(Whole(building_data.number_of_floors), R(2943, 100)),
                      ClaimedMultiplier(annotations)),
                 ClaimedAgeFactor(BuildingAge)))

\* C25: every reported critical point has a stress above 80% of the strength
\* of the building's material (as in the table, or degraded by age) and a
\* risk tag that is high above 90% of it and medium otherwise.
C25_CriticalPointsAboveThreshold ==
    fea_results # None =>
        \A i \in DOMAIN fea_results.critical_points :
            LET point == fea_results.critical_points[i]
                strength == MaterialStrength(building_data.primary_material)
                aged == RMul(strength, ClaimedAgeFactor(BuildingAge))
            IN  \E limit \in {strength, aged} :
                    /\ RLt(RMul(R(8, 10), limit), point.stress_level)
                    /\ "risk_level" \in DOMAIN point
                    /\ point.risk_level
                         = (IF RLt(RMul(R(9, 10), limit), point.stress_level)
                            THEN "high" ELSE "medium")

\* C26: whichever simulator ran, the zones are centred on (0, 0) with radii
\* 2, 5 and 10 times the floor count for danger, caution and safe.
C26_ZoneRadiiByFloors ==
    collapse_simulation # None =>
        LET zones == collapse_simulation.safety_zones
            floors == building_data.number_of_floors
        IN  /\ \A i \in DOMAIN zones : zones[i].x = 0 /\ zones[i].y = 0
            /\ ZoneRadius(zones, "danger") = 2 * floors
            /\ ZoneRadius(zones, "caution") = 5 * floors
            /\ ZoneRadius(zones, "safe") = 10 * floors

\* C27: the timeline has one frame per 0.01 s step over 10 s, in increasing
\* time order from 0.
C27_Timeline ==
    collapse_simulation # None =>
        LET frames == collapse_simulation.collapse_sequence
        IN  /\ frames.num = 1000
            /\ FrameTime(frames, 0) = Whole(0)
            /\ \A i \in 0..(frames.num - 2) :
                 REq(RSub(FrameTime(frames, i + 1), FrameTime(frames, i)),
                     R(1, 100))

CountKind(comps, kind) ==
    Cardinality({c \in DOMAIN comps : comps[c].name.kind = kind})

ClaimedFootprint(building_type) ==
    CASE building_type = "residential" -> <<20, 15>>
      [] building_type = "commercial" -> <<30, 25>>
      [] building_type = "industrial" -> <<40, 30>>
      [] OTHER -> <<20, 15>>

\* C28: the structure has one slab per floor at z = 3 * floor index, a column
\* grid of (length div 5 + 1) by (width div 5 + 1) for the type's footprint,
\* four walls per floor for residential and commercial buildings and none
\* otherwise, one roof exactly when there is more than one floor, and nothing
\* else.
C28_StructureInventory ==
    components # <<>> =>
        LET floors == building_data.number_of_floors
            fp == ClaimedFootprint(building_data.building_type)
            columns == ((fp[1] \div 5) + 1) * ((fp[2] \div 5) + 1)
            walls == IF building_data.building_type
                          \in {"residential", "commercial"}
                     THEN 4 * floors ELSE 0
            roofs == IF floors > 1 THEN 1 ELSE 0
        IN  /\ CountKind(components, "Floor") = floors
            /\ \A f \in 0..(floors - 1) :
                 \E c \in DOMAIN components :
                    /\ components[c].name.kind = "Floor"
                    /\ components[c].name.a = f
                    /\ components[c].pos.z = 2 * (f * 3)
            /\ CountKind(components, "Column") = columns
            /\ CountKind(components, "Wall") = walls
            /\ \A f \in 0..(floors - 1) :
                 walls > 0 =>
                    Cardinality({c \in DOMAIN components :
                                    /\ components[c].name.kind = "Wall"
                                    /\ components[c].name.a = f}) = 4
            /\ CountKind(components, "Roof") = roofs
            /\ Len(components) = floors + columns + walls + roofs

\* a commercial building of one floor: 1 slab, 42 columns, 4 walls, no roof
C28_Witness ==
    /\ building_data.building_type = "commercial"
    /\ building_data.number_of_floors = 1
    /\ Len(components) = 47
    /\ CountKind(components, "Column") = 42
    /\ CountKind(components, "Roof") = 0

\* C29: the age factor the stress computation used lies in [0.3, 1.0], also
\* for a construction year after the current year.
C29_AgeFactorAtMostOne ==
    fea_locals # None =>
        /\ RLe(R(3, 10), fea_locals.age_factor)
        /\ RLe(fea_locals.age_factor, Whole(1))

\* C30: any two /analyze requests get different simulation ids, and so
\* different video output files.
C30_DistinctSimulationIds ==
    \A i \in DOMAIN simulation_ids :
        \A j \in DOMAIN simulation_ids :
            i # j => /\ simulation_ids[i] # simulation_ids[j]
                     /\ OutputPath(simulation_ids[i])
                          # OutputPath(simulation_ids[j])

====
